---------------------------- MODULE Spec2Model ----------------------------
(***************************************************************************)
(* Backup (recovery) code controller of authplz-core:                      *)
(*   src/modules/2fa/backup/backup.go                                      *)
(*                                                                         *)
(* A Go string is modelled by the sequence of its space-separated words:   *)
(* strings.Split(s, " ") of any string is a non-empty sequence of          *)
(* space-free words (the empty string gives the one empty word), and       *)
(* strings.Join(ws, " ") is its inverse on non-empty sequences.            *)
(***************************************************************************)
EXTENDS Integers, Sequences, FiniteSets, TLC

\* ------------------------------------------------------------ constants
recoveryKeyLen == 16

recoveryNameLen == 3

numRecoveryKeys == 5

\* ------------------------------------------------------------- bounds
\* Radix of one entropy "byte" (256 in the build).
ByteBase == 2

\* Number of words of the mnemonic dictionary in use (1626 in the build).
DictionarySize == 3

\* Records other Storer clients may add before the model stops adding.
MaxCodes == 2

\* Concurrent ValidateCode requests.
NumProcs == 2

\* Most records the model's store ever holds.
MaxStore == MaxCodes + numRecoveryKeys

Users == {"alice", "bob"}

Procs == 1..NumProcs

\* ------------------------------------------------- strings as word lists
\* The head of the English dictionary of the mnemonics library.
English == <<"abbey", "abducts", "ability", "ablaze", "abnormal", "abort">>

dict == SubSeq(English, 1, DictionarySize)

\* A word no dictionary entry starts with.
NonWord == "zzz"

Split(s) == s

Join(ws) == IF ws = <<>> THEN <<"">> ELSE ws

\* phrase[:n] and phrase[n:] of a Go slice whose length is at least n.
Take(ws, n) == SubSeq(ws, 1, n)

Drop(ws, n) == SubSeq(ws, n + 1, Len(ws))

\* ------------------------------------------------------- mnemonic codec
RECURSIVE Pow(_, _)
Pow(b, e) == IF e = 0 THEN 1 ELSE b * Pow(b, e - 1)

\* bytesToInt: result = -1 + SUM (bs[i] + 1) * 256^i, least significant first.
RECURSIVE bytesToIntFrom(_, _)
bytesToIntFrom(bs, i) ==
    IF i > Len(bs) THEN 0
    ELSE (bs[i] + 1) * Pow(ByteBase, i - 1) + bytesToIntFrom(bs, i + 1)

bytesToInt(bs) == bytesToIntFrom(bs, 1) - 1

\* intToBytes: while bi >= base: emit bi % base; bi = (bi - base) / base.
RECURSIVE intToBytes(_)
intToBytes(bi) ==
    IF bi >= ByteBase
    THEN <<bi % ByteBase>> \o intToBytes((bi - ByteBase) \div ByteBase)
    ELSE <<bi>>

RECURSIVE intToPhrase(_)
intToPhrase(bi) ==
    IF bi >= DictionarySize
    THEN <<dict[(bi % DictionarySize) + 1]>>
             \o intToPhrase((bi - DictionarySize) \div DictionarySize)
    ELSE <<dict[bi + 1]>>

\* Index of the first dictionary word the given word is a prefix of, or -1.
\* The empty word is a prefix of every word, so it finds index 0.
wordIndex(w) ==
    IF w = "" THEN 0
    ELSE IF \E j \in 1..DictionarySize : dict[j] = w
         THEN (CHOOSE j \in 1..DictionarySize : dict[j] = w) - 1
         ELSE 0 - 1

RECURSIVE phraseToIntFrom(_, _)
phraseToIntFrom(p, i) ==
    IF i > Len(p) THEN 0
    ELSE (wordIndex(p[i]) + 1) * Pow(DictionarySize, i - 1)
             + phraseToIntFrom(p, i + 1)

phraseToInt(p) == phraseToIntFrom(p, 1) - 1

\* mnemonics.ToPhrase(entropy, English): the phrase, or an error on no input.
ToPhrase(entropy) ==
    IF Len(entropy) = 0 THEN [err |-> "errEmptyInput", phrase |-> <<>>]
    ELSE [err |-> "nil", phrase |-> intToPhrase(bytesToInt(entropy))]

\* mnemonics.FromString(str, English): the bytes, or nil and an error.
FromString(str) ==
    LET p == Split(str) IN
    IF \E i \in 1..Len(p) : wordIndex(p[i]) < 0
    THEN [err |-> "errUnknownWord", bytes |-> <<>>]
    ELSE [err |-> "nil", bytes |-> intToBytes(phraseToInt(p))]

\* Phrase.String(): the words joined by single spaces.
PhraseString(p) == Join(p)

\* ------------------------------------------------------- secret hasher
\* bcrypt.GenerateFromPassword: the hash carries the password it was made of
\* (one way: nothing in the model reads it but CompareHashAndPassword).
GenerateFromPassword(password) ==
    [err |-> "nil", hash |-> [valid |-> TRUE, pw |-> password]]

\* bcrypt.CompareHashAndPassword(hash, password) = nil.
CompareHashAndPassword(hash, password) == hash.valid /\ hash.pw = password

\* ------------------------------------------------------------- errors
NoErr == "nil"

ErrEntropyRead == "EntropyError: rand.Read failed"

ErrEntropyLen == "BackupController.CreateCodes entropy error"

ErrHash == "HashError"

ErrStorage == "StorageError: unreachable"

ErrDuplicate == "StorageError: duplicate name"

ErrConsumed == "StorageError: already used"

\* --------------------------------------------------------------- Storer
\* The store is the list of BackupCode records; a record's id is its index.
BackupCode(userid, name, hash) ==
    [user |-> userid, name |-> name, hash |-> hash, used |-> FALSE]

\* Storer.AddBackupCode: a new unused record; an error on a duplicate name
\* within the user's active set, or when the store is unreachable.
AddBackupCode(st, userid, name, hash, down) ==
    IF down THEN [err |-> ErrStorage, store |-> st]
    ELSE IF \E i \in DOMAIN st :
                st[i].user = userid /\ st[i].name = name /\ ~st[i].used
    THEN [err |-> ErrDuplicate, store |-> st]
    ELSE [err |-> NoErr, store |-> Append(st, BackupCode(userid, name, hash))]

\* Storer.GetBackupCodes: all the user's records, used and unused.
GetBackupCodes(st, userid) == {i \in DOMAIN st : st[i].user = userid}

\* Storer.GetBackupCodeByName: the ids the lookup may return; 0 is "absent".
GetBackupCodeByName(st, userid, name) ==
    LET hits == {i \in DOMAIN st : st[i].user = userid /\ st[i].name = name}
    IN  IF hits = {} THEN {0} ELSE hits

\* Code.SetUsed on the caller's copy of the record.
SetUsed(code) == [code EXCEPT !.used = TRUE]

\* Storer.UpdateBackupCode: writes the caller's copy of the record back.
\* The caller passes no condition; a Storer that guards the write refuses
\* one on a record already used, one that does not saves it again.
UpdateBackupCode(st, id, code, down, guarded) ==
    IF down THEN [err |-> ErrStorage, store |-> st]
    ELSE IF guarded /\ st[id].used THEN [err |-> ErrConsumed, store |-> st]
    ELSE [err |-> NoErr, store |-> [st EXCEPT ![id].used = code.used]]

\* ------------------------------------------------------- entropy source
\* The buffer whose first bytes are the digits of v, the rest zero.
Buffer(size, v) ==
    [i \in 1..size |->
        IF i <= recoveryNameLen THEN (v \div Pow(ByteBase, i - 1)) % ByteBase
        ELSE 0]

\* rand.Read(buf): n = len(buf) exactly when err = nil.
RandRead(size, v, fails) ==
    IF fails THEN [n |-> 0, err |-> ErrEntropyRead, buf |-> Buffer(size, 0)]
    ELSE [n |-> size, err |-> NoErr, buf |-> Buffer(size, v)]

cryptoBytes(size, rd) ==
    IF rd.err # NoErr THEN [buf |-> rd.buf, err |-> rd.err]
    ELSE IF rd.n # recoveryKeyLen THEN [buf |-> rd.buf, err |-> ErrEntropyLen]
    ELSE [buf |-> rd.buf, err |-> NoErr]

\* ----------------------------------------------------------- CreateCodes
NoHash == [valid |-> FALSE, pw |-> <<>>]

\* The zero BackupKey: three empty strings.
ZeroKey == [Name |-> <<"">>, Code |-> <<"">>, Hash |-> NoHash]

\* One call's environment: env.step spaces the values the entropy source
\* yields from one draw to the next, env.at/env.i name the collaborator call
\* that fails ("none" for none).
Fails(env, what, i) == env.at = what /\ env.i = i

\* Lines 73-104 from iteration i on: the keys, or the first error.
RECURSIVE GenerateKeys(_, _, _)
GenerateKeys(keys, i, env) ==
    IF i > numRecoveryKeys THEN [err |-> NoErr, keys |-> keys]
    ELSE
    LET code == cryptoBytes(recoveryKeyLen,
                    RandRead(recoveryKeyLen, env.step * (i - 1),
                             Fails(env, "entropy.code", i)))
        name == cryptoBytes(recoveryNameLen,
                    RandRead(recoveryNameLen, env.step * (i - 1),
                             Fails(env, "entropy.name", i)))
        mnemonicCode == ToPhrase(code.buf)
        mnemonicName == ToPhrase(name.buf)
        hash == IF Fails(env, "hash", i)
                THEN [err |-> ErrHash, hash |-> NoHash]
                ELSE GenerateFromPassword(code.buf)
    IN  IF code.err # NoErr THEN [err |-> code.err, keys |-> keys]
        ELSE IF name.err # NoErr THEN [err |-> name.err, keys |-> keys]
        ELSE IF mnemonicCode.err # NoErr
             THEN [err |-> mnemonicCode.err, keys |-> keys]
        ELSE IF mnemonicName.err # NoErr
             THEN [err |-> mnemonicName.err, keys |-> keys]
        ELSE IF hash.err # NoErr THEN [err |-> hash.err, keys |-> keys]
        ELSE GenerateKeys(
                 [keys EXCEPT ![i] = [Name |-> PhraseString(mnemonicName.phrase),
                                      Code |-> PhraseString(mnemonicCode.phrase),
                                      Hash |-> hash.hash]],
                 i + 1, env)

\* (mutant) a failed add is skipped and the loop goes on.
RECURSIVE SaveKeysKeepsGoing(_, _, _, _, _)
SaveKeysKeepsGoing(st, userid, keys, i, env) ==
    IF i > Len(keys) THEN [err |-> NoErr, store |-> st]
    ELSE LET r == AddBackupCode(st, userid, keys[i].Name, keys[i].Hash,
                                Fails(env, "add", i))
             rest == SaveKeysKeepsGoing(r.store, userid, keys, i + 1, env)
         IN  IF r.err # NoErr THEN [err |-> r.err, store |-> rest.store]
             ELSE rest

\* Lines 107-112 from key i on: the store, or the first error.
RECURSIVE SaveKeys(_, _, _, _, _)
SaveKeys(st, userid, keys, i, env) ==
    IF i > Len(keys) THEN [err |-> NoErr, store |-> st]
    ELSE LET r == AddBackupCode(st, userid, keys[i].Name, keys[i].Hash,
                                Fails(env, "add", i))
         IN  IF r.err # NoErr THEN [err |-> r.err, store |-> r.store]
             ELSE SaveKeys(r.store, userid, keys, i + 1, env)

\* Lines 70-104: keys := make([]BackupKey, numRecoveryKeys) and the loop.
MakeKeys(env) ==
    GenerateKeys([i \in 1..numRecoveryKeys |-> ZeroKey], 1, env)

\* (mutant) the call first re-arms the codes the user already has.
FinishCreateRearms(st, userid, gen, env) ==
    LET old == [c \in DOMAIN st |->
                   IF st[c].user = userid THEN [st[c] EXCEPT !.used = FALSE]
                   ELSE st[c]]
        sav == SaveKeys(old, userid, gen.keys, 1, env)
    IN  IF gen.err # NoErr
        THEN [keys |-> gen.keys, err |-> gen.err, store |-> old]
        ELSE [keys |-> gen.keys, err |-> sav.err, store |-> sav.store]

\* (mutant) the call first erases the codes the user already has.
FinishCreateErases(st, userid, gen, env) ==
    LET old == SelectSeq(st, LAMBDA c : c.user # userid)
        sav == SaveKeys(old, userid, gen.keys, 1, env)
    IN  IF gen.err # NoErr
        THEN [keys |-> gen.keys, err |-> gen.err, store |-> old]
        ELSE [keys |-> gen.keys, err |-> sav.err, store |-> sav.store]

\* (mutant) the keys made before a generation error are saved all the same.
FinishCreateSavesDespiteErr(st, userid, gen, env) ==
    LET sav == SaveKeys(st, userid, gen.keys, 1, env)
    IN  IF gen.err # NoErr
        THEN [keys |-> gen.keys, err |-> gen.err, store |-> sav.store]
        ELSE [keys |-> gen.keys, err |-> sav.err, store |-> sav.store]

\* Lines 78-114 on the generated keys: the early returns, or the save loop.
FinishCreate(st, userid, gen, env) ==
    LET sav == SaveKeys(st, userid, gen.keys, 1, env)
    IN  IF gen.err # NoErr
        THEN [keys |-> gen.keys, err |-> gen.err, store |-> st]
        ELSE [keys |-> gen.keys, err |-> sav.err, store |-> sav.store]

CreateCodes(st, userid, env) == FinishCreate(st, userid, MakeKeys(env), env)

\* ------------------------------------------- IsSupported, ValidateName
\* (mutant) any code, used or not, counts as available.
IsSupportedAnyCode(st, userid, down) ==
    IF down THEN FALSE
    ELSE GetBackupCodes(st, userid) # {}

\* (mutant) a failed read is answered "supported".
IsSupportedFailOpen(st, userid, down) ==
    IF down THEN TRUE
    ELSE \E c \in GetBackupCodes(st, userid) : ~st[c].used

IsSupported(st, userid, down) ==
    IF down THEN FALSE
    ELSE \E c \in GetBackupCodes(st, userid) : ~st[c].used

\* (mutant) the used flag is not looked at.
ValidateNameIgnoresUsed(st, userid, name, down) ==
    IF down THEN [ok |-> FALSE, err |-> ErrStorage, store |-> st]
    ELSE [ok |-> \E c \in GetBackupCodes(st, userid) : st[c].name = name,
          err |-> NoErr, store |-> st]

\* (mutant) the matched code is marked used, as ValidateCode does.
ValidateNameConsumes(st, userid, name, down) ==
    IF down THEN [ok |-> FALSE, err |-> ErrStorage, store |-> st]
    ELSE [ok |-> \E c \in GetBackupCodes(st, userid) :
                    st[c].name = name /\ ~st[c].used,
          err |-> NoErr,
          store |-> [c \in DOMAIN st |->
                        IF st[c].user = userid /\ st[c].name = name
                        THEN SetUsed(st[c]) ELSE st[c]]]

ValidateName(st, userid, name, down) ==
    IF down THEN [ok |-> FALSE, err |-> ErrStorage, store |-> st]
    ELSE [ok |-> \E c \in GetBackupCodes(st, userid) :
                    st[c].name = name /\ ~st[c].used,
          err |-> NoErr, store |-> st]

\* ---------------------------------------------------------- ValidateCode
\* Lines 166-174. phrase[:recoveryNameLen] panics on a shorter slice; the
\* error of FromString is dropped and key is then nil.
ParseCode(codeString) ==
    LET phrase == Split(codeString) IN
    IF Len(phrase) < recoveryNameLen
    THEN [panic |-> TRUE, name |-> <<"">>, key |-> <<>>]
    ELSE [panic |-> FALSE,
          name |-> Join(Take(phrase, recoveryNameLen)),
          key |-> FromString(Join(Drop(phrase, recoveryNameLen))).bytes]

Ret(ok, err) == [ok |-> ok, err |-> err]

\* (mutant) the secret is not compared with the stored hash.
CheckCodeSkipsHash(st, c, down, name, key) ==
    IF down THEN [done |-> TRUE, ret |-> Ret(FALSE, ErrStorage)]
    ELSE IF c = 0 THEN [done |-> TRUE, ret |-> Ret(FALSE, NoErr)]
    ELSE IF st[c].name # name \/ st[c].used
         THEN [done |-> TRUE, ret |-> Ret(FALSE, NoErr)]
    ELSE [done |-> FALSE, ret |-> Ret(FALSE, NoErr)]

\* Lines 177-199 on the lookup's answer (c = 0: nil): the call's return, or
\* the record to write back.
CheckCode(st, c, down, name, key) ==
    IF down THEN [done |-> TRUE, ret |-> Ret(FALSE, ErrStorage)]
    ELSE IF c = 0 THEN [done |-> TRUE, ret |-> Ret(FALSE, NoErr)]
    ELSE IF st[c].name # name \/ st[c].used
         THEN [done |-> TRUE, ret |-> Ret(FALSE, NoErr)]
    ELSE IF ~CompareHashAndPassword(st[c].hash, key)
         THEN [done |-> TRUE, ret |-> Ret(FALSE, NoErr)]
    ELSE [done |-> FALSE, ret |-> Ret(FALSE, NoErr)]

\* (mutant) the update's error is dropped.
FinishUpdateIgnoresErr(err) == Ret(TRUE, NoErr)

\* Lines 202-208 on the update's answer.
FinishUpdate(err) ==
    IF err # NoErr THEN Ret(FALSE, err) ELSE Ret(TRUE, NoErr)


\* (mutant) the call returns false after the update went through.
UpdateCodeReturnsFalse(st, c, rec, down, guarded) ==
    LET upd == UpdateBackupCode(st, c, rec, down, guarded)
    IN  [ret |-> Ret(FALSE, upd.err), store |-> upd.store]

\* Lines 202-208: the record is written back and the update's answer
\* returned.
UpdateCode(st, c, rec, down, guarded) ==
    LET upd == UpdateBackupCode(st, c, rec, down, guarded)
    IN  [ret |-> FinishUpdate(upd.err), store |-> upd.store]

\* Lines 176-208 on the parsed code string when nothing else reaches the
\* Storer between the lookup and the update: the lookup answers c (0: nil)
\* and the Storer is down at the call named by down ("get", "update", or
\* "none").
ValidateParsed(st, parsed, c, down) ==
    LET chk == CheckCode(st, c, down = "get", parsed.name, parsed.key)
        upd == UpdateCode(st, c, SetUsed(st[c]), down = "update", TRUE)
    IN  IF parsed.panic
        THEN [panic |-> TRUE, ret |-> Ret(FALSE, NoErr), store |-> st]
        ELSE IF chk.done
        THEN [panic |-> FALSE, ret |-> chk.ret, store |-> st]
        ELSE [panic |-> FALSE, ret |-> upd.ret, store |-> upd.store]

\* The whole call with no other call between its two Storer accesses: one
\* result for each answer the lookup may give.
ValidateCode(st, userid, codeString, down) ==
    LET parsed == ParseCode(codeString)
    IN  {ValidateParsed(st, parsed, c, down) :
            c \in GetBackupCodeByName(st, userid, parsed.name)}

\* ------------------------------------------------------------ the inputs
\* Entropy values of the names and secrets of the records other Storer
\* clients add, and of the phrases users type.
NameVals == {0, Pow(ByteBase, recoveryNameLen) - 1}

StoredSecret == Buffer(recoveryKeyLen, 0)

OtherSecret == Buffer(recoveryKeyLen, 1)

NameOf(v) == PhraseString(ToPhrase(Buffer(recoveryNameLen, v)).phrase)

SecretPhrase(secret) == PhraseString(ToPhrase(secret).phrase)

\* What the wire shape asks the user to type: name phrase, space, secret phrase.
Typed(name, secret) == name \o SecretPhrase(secret)

Names == {NameOf(v) : v \in NameVals}

LongNames == {n \in Names : Len(n) = recoveryNameLen}

CodeStrings ==
    {Typed(n, StoredSecret) : n \in Names}
        \cup {Typed(n, OtherSecret) : n \in LongNames}
        \cup {SecretPhrase(StoredSecret)}
        \cup {n \o <<NonWord>> : n \in LongNames}
        \cup Names
        \cup {<<"">>}

Envs ==
    {[step |-> s, at |-> "none", i |-> 0] : s \in {0, 1}}
        \cup [step : {1},
              at : {"entropy.code", "entropy.name", "hash", "add"},
              i : {1, numRecoveryKeys}]

\* The batch line 103 builds when every draw, encoding and hash succeeds.
IssuedKeys(step) ==
    [i \in 1..numRecoveryKeys |->
        [Name |-> NameOf(step * (i - 1)),
         Code |-> SecretPhrase(Buffer(recoveryKeyLen, step * (i - 1))),
         Hash |-> GenerateFromPassword(
                      Buffer(recoveryKeyLen, step * (i - 1))).hash]]

Issued == [step \in {0, 1} |-> IssuedKeys(step)]

\* The inputs' parses and key batches, which no state changes.
Parsed == [s \in CodeStrings |-> ParseCode(s)]

Generated == [env \in Envs |-> MakeKeys(env)]

StoredHash == GenerateFromPassword(StoredSecret).hash

\* ------------------------------------------------------------- the state
\* store: the Storer's records.  pc, code, ret: each concurrent
\* ValidateCode request's position, the record it holds (with the call's
\* arguments) and its return.
\* wins: how many ValidateCode calls returned true on each record id.
\* last: the call that returned latest, with its arguments and return
\* (and, for CreateCodes, the store it was called on).
VARIABLES store, pc, code, ret, wins, last

vars == <<store, pc, code, ret, wins, last>>

NoCode == [id |-> 0, used |-> FALSE, userid |-> "", codeString |-> <<"">>]

\* What a ValidateCode call gave its caller.
Called(userid, s, down, panic, r) ==
    [op |-> "ValidateCode", user |-> userid, s |-> s, down |-> down,
     panic |-> panic, ok |-> r.ok, err |-> r.err]

NoCall == [op |-> "none"]

Init ==
    /\ store = <<>>
    /\ pc = [p \in Procs |-> "idle"]
    /\ code = [p \in Procs |-> NoCode]
    /\ ret = [p \in Procs |-> Ret(FALSE, NoErr)]
    /\ wins = [i \in 1..MaxStore |-> 0]
    /\ last = NoCall

\* Another client of the Storer (an enrolment) adds a record.
StorerAdd ==
    /\ Len(store) < MaxCodes
    /\ \E u \in Users, n \in Names :
          LET r == AddBackupCode(store, u, n, StoredHash, FALSE)
          IN  /\ r.err = NoErr
              /\ store' = r.store
    /\ last' = NoCall
    /\ UNCHANGED <<pc, code, ret, wins>>

DoCreateCodes ==
    /\ Len(store) <= MaxCodes
    /\ \E u \in Users, env \in Envs :
          LET r == FinishCreate(store, u, Generated[env], env)
          IN  /\ store' = r.store
              /\ last' = [op |-> "CreateCodes", user |-> u, keys |-> r.keys,
                          err |-> r.err, envOK |-> env.at = "none",
                          distinct |-> env.step # 0, before |-> store]
    /\ UNCHANGED <<pc, code, ret, wins>>

DoIsSupported ==
    /\ \E u \in Users, down \in BOOLEAN :
          last' = [op |-> "IsSupported", user |-> u, down |-> down,
                   ok |-> IsSupported(store, u, down)]
    /\ UNCHANGED <<store, pc, code, ret, wins>>

DoValidateName ==
    /\ \E u \in Users, n \in Names, down \in BOOLEAN :
          LET r == ValidateName(store, u, n, down)
          IN  /\ store' = r.store
              /\ last' = [op |-> "ValidateName", user |-> u, name |-> n,
                          down |-> down, ok |-> r.ok, err |-> r.err]
    /\ UNCHANGED <<pc, code, ret, wins>>

\* A ValidateCode call up to its return or to the eve of UpdateBackupCode:
\* the parse is local, GetBackupCodeByName is the step's one Storer access.
VC_Lookup(p) ==
    /\ pc[p] = "idle"
    /\ \E u \in Users, s \in CodeStrings, down \in BOOLEAN :
          LET parsed == Parsed[s] IN
          IF parsed.panic
          THEN /\ pc' = [pc EXCEPT ![p] = "panic"]
               /\ last' = Called(u, s, "none", TRUE, Ret(FALSE, NoErr))
               /\ UNCHANGED <<code, ret>>
          ELSE \E c \in GetBackupCodeByName(store, u, parsed.name) :
                 LET chk == CheckCode(store, c, down, parsed.name, parsed.key)
                 IN  IF chk.done
                     THEN /\ pc' = [pc EXCEPT ![p] = "done"]
                          /\ ret' = [ret EXCEPT ![p] = chk.ret]
                          /\ last' = Called(u, s,
                                            IF down THEN "get" ELSE "none",
                                            FALSE, chk.ret)
                          /\ UNCHANGED code
                     ELSE /\ pc' = [pc EXCEPT ![p] = "matched"]
                          /\ code' = [code EXCEPT ![p] =
                                        [id |-> c,
                                         used |-> SetUsed(store[c]).used,
                                         userid |-> u, codeString |-> s]]
                          /\ UNCHANGED <<ret, last>>
    /\ UNCHANGED <<store, wins>>

\* UpdateBackupCode and the return that follows it; other calls may have
\* reached the Storer since this one's lookup.
VC_Update(p) ==
    /\ pc[p] = "matched"
    /\ \E down \in BOOLEAN, guarded \in BOOLEAN :
          LET r == UpdateCode(store, code[p].id, code[p], down, guarded)
          IN  /\ store' = r.store
              /\ ret' = [ret EXCEPT ![p] = r.ret]
              /\ wins' = IF r.ret.ok
                         THEN [wins EXCEPT ![code[p].id] = @ + 1]
                         ELSE wins
              /\ last' = Called(code[p].userid, code[p].codeString,
                                IF down THEN "update" ELSE "none",
                                FALSE, r.ret)
    /\ pc' = [pc EXCEPT ![p] = "done"]
    /\ UNCHANGED code

\* The caller takes the result (or the server recovers from the panic).
VC_Return(p) ==
    /\ pc[p] \in {"done", "panic"}
    /\ pc' = [pc EXCEPT ![p] = "idle"]
    /\ code' = [code EXCEPT ![p] = NoCode]
    /\ ret' = [ret EXCEPT ![p] = Ret(FALSE, NoErr)]
    /\ UNCHANGED <<store, wins, last>>

Lookup == \E p \in Procs : VC_Lookup(p)

Update == \E p \in Procs : VC_Update(p)

Return == \E p \in Procs : VC_Return(p)

\* The controller's operations, ValidateCode calls overlapping one another
\* and the other operations.
Next ==
    \/ StorerAdd
    \/ DoCreateCodes
    \/ DoIsSupported
    \/ DoValidateName
    \/ Lookup
    \/ Update
    \/ Return

Spec == Init /\ [][Next]_vars

\* ValidateCode requests racing one another on the Storer.
NextRace ==
    \/ StorerAdd
    \/ Lookup
    \/ Update
    \/ Return

SpecRace == Init /\ [][NextRace]_vars

\* ---------------------------------------------------------------- claims
\* The requests that matched name and secret of record r and hold it.
Racers(r) == {p \in Procs : code[p].id = r}

\* C1 (as claimed): however the lookups and updates of concurrent
\* ValidateCode calls on one unused record interleave, no record is ever
\* credited to more than one call, and once every call that matched the
\* record has returned (the Storer having stayed reachable) exactly one call
\* has returned true.
C1_ExactlyOneWinner ==
    \A r \in DOMAIN store :
        /\ wins[r] <= 1
        /\ Cardinality({p \in Racers(r) : pc[p] = "done" /\ ret[p].ok}) <= 1
        /\ (/\ Racers(r) # {}
            /\ \A p \in Racers(r) : pc[p] = "done" /\ ret[p].err # ErrStorage)
           => wins[r] = 1

\* C2 (as claimed): after CreateCodes(u) with every collaborator working,
\* ValidateCode(u, k.Code) of each returned key k returns true when first
\* called and false when called again.
C2_FreshCodeValidatesOnce ==
    (last.op = "CreateCodes" /\ last.envOK) =>
        \A i \in DOMAIN last.keys :
            \A r1 \in ValidateCode(store, last.user, last.keys[i].Code, "none") :
                /\ ~r1.panic
                /\ r1.ret.ok
                /\ \A r2 \in ValidateCode(r1.store, last.user,
                                          last.keys[i].Code, "none") :
                       ~r2.panic /\ ~r2.ret.ok

\* C3: a record's used flag never goes back from true to false, no record
\* disappears, and a new record starts unused.
C3_UsedMonotonic ==
    [][/\ \A i \in DOMAIN store :
             i \in DOMAIN store' /\ (store[i].used => store'[i].used)
       /\ \A i \in DOMAIN store' \ DOMAIN store : ~store'[i].used]_vars

\* A call was made on a store that holds a consumed record.
C3_Witness ==
    /\ last.op = "CreateCodes"
    /\ \E i \in DOMAIN store : store[i].used
    /\ \E i \in DOMAIN store : ~store[i].used

\* C4 (as claimed): with the entropy source (yielding distinct values), the
\* codec, the hasher and the Storer all succeeding, CreateCodes returns no
\* error and 5 keys with pairwise-distinct names and pairwise-distinct codes.
C4_BatchShape ==
    (last.op = "CreateCodes" /\ last.envOK /\ last.distinct) =>
        /\ last.err = NoErr
        /\ Len(last.keys) = numRecoveryKeys
        /\ \A i, j \in DOMAIN last.keys :
              i # j => /\ last.keys[i].Name # last.keys[j].Name
                       /\ last.keys[i].Code # last.keys[j].Code

\* C5 (as claimed): every key CreateCodes returns carries in Code its name
\* phrase, a space and its secret phrase, so that ValidateCode's split gives
\* back the key's Name and a secret the key's Hash verifies.
C5_CodeIsNameThenSecret ==
    (last.op = "CreateCodes" /\ last.envOK) =>
        \A i \in DOMAIN last.keys :
            LET k == last.keys[i]
                parsed == ParseCode(k.Code)
            IN  /\ ~parsed.panic
                /\ parsed.name = k.Name
                /\ k.Code = k.Name \o Drop(k.Code, Len(k.Name))
                /\ CompareHashAndPassword(k.Hash, parsed.key)

\* A code string no well-formed code has: fewer words than a name, or a
\* secret part that does not decode.
Malformed(s) ==
    \/ Len(Split(s)) < recoveryNameLen
    \/ FromString(Join(Drop(Split(s), recoveryNameLen))).err # NoErr

\* C6 (as claimed): ValidateCode on a malformed code string, the Storer
\* being reachable, returns (false, nil) and does not panic.
C6_MalformedIsPlainFalse ==
    (last.op = "ValidateCode" /\ last.down = "none" /\ Malformed(last.s)) =>
        /\ ~last.panic
        /\ ~last.ok
        /\ last.err = NoErr

\* C7 (as claimed): a call that matched name and secret and whose update was
\* refused because the record had been consumed meanwhile returns
\* (false, nil).
C7_LostRaceIsPlainFalse ==
    \A p \in Procs :
        (/\ pc[p] = "done"
         /\ code[p].id # 0
         /\ ~ret[p].ok
         /\ ret[p].err # ErrStorage)
        => ret[p] = Ret(FALSE, NoErr)

\* The user's unused records of the given name.
Active(userid, name) ==
    {i \in DOMAIN store :
        store[i].user = userid /\ store[i].name = name /\ ~store[i].used}

\* C8: when the Storer read succeeds, ValidateName(u, name) returns true
\* if and only if u has an unused record of exactly that name.
C8_ValidateNameIffActive ==
    (last.op = "ValidateName" /\ ~last.down) =>
        /\ last.err = NoErr
        /\ last.ok <=> Active(last.user, last.name) # {}

\* ValidateName returned true for a name the user also has a used record of.
C8_Witness ==
    /\ last.op = "ValidateName" /\ ~last.down /\ last.ok
    /\ \E i \in DOMAIN store :
          store[i].user = last.user /\ store[i].name = last.name /\ store[i].used

\* C9: a ValidateName call, whatever it returns, leaves the stored records
\* and their used flags as they were.
C9_ValidateNameReadOnly ==
    [][last'.op = "ValidateName" => store' = store]_vars

\* ValidateName failed on a store that holds used and unused records.
C9_Witness ==
    /\ last.op = "ValidateName" /\ last.err # NoErr
    /\ \E i \in DOMAIN store : store[i].used
    /\ \E i \in DOMAIN store : ~store[i].used

\* C10: when the Storer read succeeds, IsSupported(u) returns true if and
\* only if one of u's records is unused.
C10_IsSupportedIffUnused ==
    (last.op = "IsSupported" /\ ~last.down) =>
        (last.ok <=> \E i \in DOMAIN store :
                        store[i].user = last.user /\ ~store[i].used)

\* IsSupported returned false for a user all of whose codes are consumed.
C10_Witness ==
    /\ last.op = "IsSupported" /\ ~last.down /\ ~last.ok
    /\ \E i \in DOMAIN store : store[i].user = last.user
    /\ \A i \in DOMAIN store : store[i].user = last.user => store[i].used

\* C11: whenever GetBackupCodes fails, IsSupported(u) returns false,
\* whatever codes u has.
C11_IsSupportedFailClosed ==
    (last.op = "IsSupported" /\ last.down) => ~last.ok

\* IsSupported was refused its read for a user who has an unused code.
C11_Witness ==
    /\ last.op = "IsSupported" /\ last.down /\ ~last.ok
    /\ \E i \in DOMAIN store : store[i].user = last.user /\ ~store[i].used

\* C12 (as claimed): ValidateName(u, k.name) is true for every unconsumed
\* record k and false for every consumed one.
C12_NameFalseOnceConsumed ==
    \A k \in DOMAIN store :
        ValidateName(store, store[k].user, store[k].name, FALSE).ok
            <=> ~store[k].used

\* C12 (amended): ValidateName(u, k.name) is true for every unconsumed
\* record k, and for a consumed one it is true only when u holds another,
\* unused record of the same name.
C12_NameFalseUnlessReissued ==
    \A k \in DOMAIN store :
        ValidateName(store, store[k].user, store[k].name, FALSE).ok
            <=> \/ ~store[k].used
                \/ \E j \in DOMAIN store :
                      /\ j # k
                      /\ store[j].user = store[k].user
                      /\ store[j].name = store[k].name
                      /\ ~store[j].used

\* ValidateCode has just consumed one of a user's two codes.
C12_Witness ==
    /\ last.op = "ValidateCode" /\ last.ok
    /\ \E k, j \in DOMAIN store :
          /\ store[k].user = last.user /\ store[k].used
          /\ store[j].user = last.user /\ ~store[j].used
          /\ store[j].name # store[k].name

\* C13: a ValidateCode call has returned true only when the record it
\* matched is stored as used.
C13_TrueOnlyOnceCommitted ==
    \A p \in Procs :
        (pc[p] = "done" /\ ret[p].ok) =>
            /\ code[p].id \in DOMAIN store
            /\ store[code[p].id].used

\* A request has returned true.
C13_Witness ==
    \E p \in Procs : pc[p] = "done" /\ ret[p].ok /\ code[p].id # 0

\* st followed by the first m keys as unused records of the user.
WithAdded(st, userid, keys, m) ==
    st \o [k \in 1..m |-> BackupCode(userid, keys[k].Name, keys[k].Hash)]

\* The save loop on a generated batch stops at the first add that fails: the
\* adds before it stay, as unused records, and none is made after it.
SaveStopsAtFirstError(st) ==
    \A u \in Users, env \in Envs :
        LET keys == Issued[env.step]
            r == SaveKeys(st, u, keys, 1, env)
        IN  \E m \in 0..numRecoveryKeys :
               /\ r.store = WithAdded(st, u, keys, m)
               /\ (r.err = NoErr) <=> (m = numRecoveryKeys)
               /\ env.at = "add" => (r.err # NoErr /\ m < env.i)
               /\ r.err # NoErr =>
                     AddBackupCode(r.store, u, keys[m + 1].Name,
                                   keys[m + 1].Hash,
                                   Fails(env, "add", m + 1)).err = r.err

\* C14: CreateCodes returns a non-nil error when a collaborator fails, makes
\* no AddBackupCode call after the first failure, and leaves the records the
\* failed batch had added in the store, unused.
C14_StopsAtFirstFailure ==
    /\ SaveStopsAtFirstError(store)
    /\ last.op = "CreateCodes" =>
          /\ ~last.envOK => last.err # NoErr
          /\ last.err # NoErr =>
                \E m \in 0..(numRecoveryKeys - 1) :
                   /\ Len(store) = Len(last.before) + m
                   /\ SubSeq(store, 1, Len(last.before)) = last.before
                   /\ \A i \in (Len(last.before) + 1)..Len(store) :
                         /\ store[i].user = last.user
                         /\ ~store[i].used

\* CreateCodes, one of its collaborators failing, returned the error.
C14_Witness ==
    /\ last.op = "CreateCodes" /\ ~last.envOK /\ last.err # NoErr
    /\ Len(store) = MaxCodes
    /\ store = last.before

\* CreateCodes on a generated batch keeps every record there was, as it was,
\* and adds only records of its user.
CreateOnlyAdds(st) ==
    \A u \in Users, env \in Envs :
        LET r == FinishCreate(st, u,
                              [err |-> NoErr, keys |-> Issued[env.step]], env)
        IN  /\ Len(r.store) >= Len(st)
            /\ SubSeq(r.store, 1, Len(st)) = st
            /\ \A i \in (Len(st) + 1)..Len(r.store) : r.store[i].user = u
            /\ \A i \in DOMAIN st :
                  ~st[i].used =>
                      ValidateName(r.store, st[i].user, st[i].name, FALSE).ok

\* C15: CreateCodes(u) only adds records of u: every record there was stays
\* as it was, and every code that was unused is still accepted.
C15_CreateOnlyAdds ==
    /\ CreateOnlyAdds(store)
    /\ last.op = "CreateCodes" =>
          /\ Len(store) >= Len(last.before)
          /\ SubSeq(store, 1, Len(last.before)) = last.before
          /\ \A i \in (Len(last.before) + 1)..Len(store) :
                store[i].user = last.user

\* CreateCodes was called for a user who has an unused code, another user
\* having a consumed one.
C15_Witness ==
    /\ last.op = "CreateCodes"
    /\ \E i, j \in DOMAIN store :
          /\ store[i].user = last.user /\ ~store[i].used
          /\ store[j].user # last.user /\ store[j].used

\* The name and the secret bytes a code string of at least
\* recoveryNameLen words stands for.
NameWords(s) == Join(Take(Split(s), recoveryNameLen))

SecretBytes == [s \in CodeStrings |->
                   FromString(Join(Drop(Split(s), recoveryNameLen))).bytes]

\* The user's unused records of the code string's name whose hash the code
\* string's secret verifies against.
Matching(st, userid, s) ==
    IF Len(Split(s)) < recoveryNameLen THEN {}
    ELSE {k \in DOMAIN st :
             /\ st[k].user = userid
             /\ st[k].name = NameWords(s)
             /\ ~st[k].used
             /\ CompareHashAndPassword(st[k].hash, SecretBytes[s])}

\* The call of p comes to its return in this step.
Returns(p) == pc[p] # "done" /\ pc'[p] = "done"

\* C17: ValidateCode(u, s) goes on to UpdateBackupCode only with an unused
\* record of u named by the first 3 words of s whose hash verifies the rest
\* of s, and returns true only by marking that record used; with no such
\* record at its lookup it returns (false, nil) and writes nothing.
C17_TrueOnlyOnMatch ==
    [][\A p \in Procs :
          /\ (pc[p] = "idle" /\ pc'[p] = "matched") =>
                code'[p].id \in Matching(store, code'[p].userid,
                                         code'[p].codeString)
          /\ (Returns(p) /\ ret'[p].ok) =>
                /\ pc[p] = "matched"
                /\ last' = Called(code[p].userid, code[p].codeString,
                                  "none", FALSE, Ret(TRUE, NoErr))
                /\ store[code[p].id].user = code[p].userid
                /\ store[code[p].id].name = NameWords(code[p].codeString)
                /\ CompareHashAndPassword(store[code[p].id].hash,
                                          SecretBytes[code[p].codeString])
                /\ store' = [store EXCEPT ![code[p].id].used = TRUE]
          /\ (/\ Returns(p) /\ pc[p] = "idle"
              /\ last'.down = "none"
              /\ Matching(store, last'.user, last'.s) = {})
             => (~last'.ok /\ last'.err = NoErr /\ store' = store)]_vars

\* ValidateCode returned true on a well-formed code string.
C17_Witness ==
    /\ last.op = "ValidateCode" /\ last.ok /\ last.down = "none"
    /\ last.s \in {Typed(n, StoredSecret) : n \in LongNames}

\* C18: a ValidateCode call that returns false leaves every record, and so
\* every used flag, as it was: neither its lookup nor its refused or failed
\* update writes.
C18_FalseWritesNothing ==
    [][\A p \in Procs :
          /\ (Returns(p) /\ ~ret'[p].ok) => store' = store
          /\ (pc[p] = "idle" /\ pc'[p] # "idle") => store' = store]_vars

\* ValidateCode refused the right name with the wrong secret; the named
\* code is still unused.
C18_Witness ==
    /\ last.op = "ValidateCode" /\ ~last.ok /\ last.down = "none"
    /\ last.s \in {Typed(n, OtherSecret) : n \in LongNames}
    /\ \E k \in DOMAIN store :
          /\ store[k].user = last.user
          /\ store[k].name = NameWords(last.s)
          /\ ~store[k].used

GenerationErrors == {ErrEntropyRead, ErrEntropyLen, ErrHash, "errEmptyInput"}

\* C19: when CreateCodes fails with an entropy, encoding or hashing error
\* the store is as it was before the call, whatever keys the loop had made;
\* a failed call that changed the store failed on the Storer.
C19_GenerationErrorAddsNothing ==
    /\ \A u \in Users, env \in Envs, e \in GenerationErrors :
          FinishCreate(store, u, [err |-> e, keys |-> Issued[env.step]],
                       env).store = store
    /\ last.op = "CreateCodes" =>
          /\ last.err \in GenerationErrors => store = last.before
          /\ (last.err # NoErr /\ store # last.before)
                => last.err \in {ErrStorage, ErrDuplicate}

\* CreateCodes failed on a read of the entropy source, for a user with codes.
C19_Witness ==
    /\ last.op = "CreateCodes" /\ last.err = ErrEntropyRead
    /\ store = last.before
    /\ \E i \in DOMAIN store : store[i].user = last.user /\ ~store[i].used

\* C20 (as claimed): a draw of either size fails only when the source
\* reports an error or a short read: when the source fills the buffer,
\* cryptoBytes returns it with a nil error, and CreateCodes with working
\* collaborators reports no entropy error.
C20_DrawSucceedsWhenFilled ==
    last.op = "CreateCodes" =>
        /\ \A size \in {recoveryKeyLen, recoveryNameLen}, v \in {0, 1} :
              LET r == cryptoBytes(size, RandRead(size, v, FALSE))
              IN  r.err = NoErr /\ r.buf = Buffer(size, v)
        /\ last.envOK => last.err \notin {ErrEntropyRead, ErrEntropyLen}

=============================================================================
